---- MODULE Spec2Model ----
(***************************************************************************)
(* A model of the HRI interaction controller (src/src/hri_interaction.py) *)
(* and, near the end, of the offline analysis of its recordings            *)
(* (src/src/analysis/parseRosbags.py).                                     *)
(*                                                                         *)
(* The controller is a main thread (the constructor, then main()), the     *)
(* three rospy subscriber callbacks, the thread that starts the rosbag     *)
(* recording, and the atexit hook.  Every callback is one atomic action;   *)
(* the main thread is cut at its blocking calls (sleep, script reading).   *)
(*                                                                         *)
(* Lengths are in decimetres, so that the origin offset of 0.4 m is the    *)
(* integer 4; times are in whole seconds.  Text is a sequence of           *)
(* one-character strings.                                                  *)
(*                                                                         *)
(* Two slips of the source are not modelled, since with them no session    *)
(* starts at all: the missing comma after words_list (line 365) and the    *)
(* misspelt parser name (line 438).                                        *)
(***************************************************************************)
EXTENDS Integers, Sequences, FiniteSets, TLC

VARIABLES
    pc,               \* position of the main thread
    exc,              \* the exception that ended the main thread, or "none"
    objdict,          \* self.objdict: object id -> Lego
    gazescores,       \* self.gazescores: target id -> scores
    pointscores,      \* self.pointscores: target id -> scores
    saliency_scores,  \* self.saliency_scores: object id -> saliency
    rosbags,          \* self.rosbags and the state of the recording process
    children,         \* child processes the recording process still has
    action_list,      \* systemValidation's local action_list
    idx,              \* number of entries of action_list acted out
    timing,           \* the last actOutReference call: overhead, waittime, slept
    correctactions,   \* lines of results/p<user>_correctactionlist.txt
    shutdown_log,     \* outcome of every call of shutdown, in order
    nvb,              \* self.nvb, the constructor's nonverbalBehavior
    probe,            \* the call observed: a remembered call of the selector,
                      \* or the arguments of a function applied on its own
    out               \* what the last step did to the collaborators

vars == <<pc, exc, objdict, gazescores, pointscores, saliency_scores, rosbags,
          children, action_list, idx, timing, correctactions,
          shutdown_log, nvb, probe, out>>

-----------------------------------------------------------------------------
(* Bounds of the model.                                                    *)

\* Kinect x coordinates the sensor reports for object 0 are 0..MaxCoord.
MaxCoord == 1
\* Objects are 0..ExpectedCount-1 and the stray objects up to this many more.
MaxStray == 1
\* Dispatching speech and gesture takes 0..MaxOverhead seconds.
MaxOverhead == 6
\* sleep returns at most this many seconds late.
MaxJitter == 1
\* The recording process has 0..MaxChildren child processes.
MaxChildren == 2
\* random.shuffle is one of the rotations by 0..MaxRot, or the reversal.
MaxRot == 0
\* The score messages of the score-store session are for targets 0..MaxTarget.
MaxTarget == 1
\* Kinect coordinates given to convertCoords on its own are 0..MaxPoint.
MaxPoint == 2
\* Spoken words given to words_list on its own have at most MaxLen characters.
MaxLen == 3
\* The bags given to system_validation hold at most MaxLog messages.
MaxLog == 3

-----------------------------------------------------------------------------
(* Program constants.                                                      *)

\* assert len(self.objdict) == 6
ExpectedCount == 6
\* totaltime = starttime + 5
ActionBudget == 5
\* originTranslationVector = [0, -0.4, 0], in decimetres
OriginTranslationVector == <<0, -4, 0>>
\* The list of line 313 without its first entry.
ValidationActions_NoNone == <<"look", "point", "lookandpoint">>
\* for act in ['none','look','point','lookandpoint']
ValidationActions == <<"none", "look", "point", "lookandpoint">>
Actions == {"none", "look", "point", "lookandpoint"}

\* The words startup assigns, one list of one string per object.
DescriptorWords ==
    [i \in 0..5 |->
       CASE i = 0 -> << <<"s","m","a","l","l"," ","r","e","d">> >>
         [] i = 1 -> << <<"l","a","r","g","e"," ","o","r","a","n","g","e">> >>
         [] i = 2 -> << <<"s","m","a","l","l"," ","y","e","l","l","o","w">> >>
         [] i = 3 -> << <<"l","a","r","g","e"," ","l","i","m","e">> >>
         [] i = 4 -> << <<"s","m","a","l","l"," ","g","r","e","e","n">> >>
         [] OTHER -> << <<"l","a","r","g","e"," ","b","l","u","e">> >> ]

-----------------------------------------------------------------------------
(* Dictionaries.                                                           *)

EmptyDict == [k \in {} |-> 0]
\* An assignment that leaves an item that is there as it is.
Put_KeepFirst(d, k, v) ==
    [i \in (DOMAIN d) \cup {k} |-> IF i \in DOMAIN d THEN d[i] ELSE v]

Put(d, k, v) == [i \in (DOMAIN d) \cup {k} |-> IF i = k THEN v ELSE d[i]]

\* The keys of a dictionary of small integers, in iteration order.
RECURSIVE SortedKeys(_)
SortedKeys(S) ==
    IF S = {} THEN <<>>
    ELSE LET m == CHOOSE x \in S : \A y \in S : x <= y
         IN  <<m>> \o SortedKeys(S \ {m})

-----------------------------------------------------------------------------
(* The main thread's positions, in program order.                          *)

PcOrder == <<"start", "init_subscribed", "init_objdict", "init_robot",
             "init_wait", "init_saliency", "constructed", "startup_sleep",
             "validation", "val_shuffle", "val_script", "val_loop",
             "main_phase", "shutdown", "exiting", "terminated">>

Rank(p) == CHOOSE i \in 1..Len(PcOrder) : PcOrder[i] = p

\* Attributes of self exist from the line that first assigns them.
Subscribed == Rank(pc) >= Rank("init_subscribed") /\ pc # "terminated"
HasObjdict == Rank(pc) >= Rank("init_objdict")
HasRobot == Rank(pc) >= Rank("init_robot")
HasScores == Rank(pc) >= Rank("init_wait")
HasSaliency == Rank(pc) >= Rank("constructed") /\ exc # "IOError: camera"

-----------------------------------------------------------------------------
(* Messages of the three topics.                                           *)

ObjectIds == 0..(ExpectedCount - 1 + MaxStray)

\* Colour thresholds (upper, lower), the two of initializeObjects.
ColorA == [upper |-> <<255, 40, 40>>, lower |-> <<200, 0, 0>>]
ColorB == [upper |-> <<40, 255, 40>>, lower |-> <<0, 100, 0>>]

\* The sensor moves object 0 only; the first stray object is seen in either
\* colour.
KinectPos(i) == IF i = 0 THEN {<<x, 1, 10>> : x \in 0..MaxCoord}
                ELSE {<<i, 1, 10>>}
KinectColors(i) == IF i = ExpectedCount THEN {ColorA, ColorB} ELSE {ColorA}

ObjectsInfo ==
    UNION {[object_id : {i}, pos : KinectPos(i), color : KinectColors(i)]
           : i \in ObjectIds}

\* The sensor first reports the objects 1..5 in the order of their ids.
SensorOrder(m) ==
    m.object_id \in 1..(ExpectedCount - 1) => (m.object_id - 1) \in DOMAIN objdict

\* scores[i + 1] is the score of object i, one score per object.
ClearFirst == [i \in 1..ExpectedCount |-> IF i = 1 THEN 90 ELSE 2]
Ambiguous == [i \in 1..ExpectedCount |-> IF i <= 2 THEN 50 ELSE 0]
ScoreTargets == {0}
ScoreVectors(t) == {ClearFirst, Ambiguous}

GazePointInfo ==
    UNION {[type : {"gaze", "point", "face"}, target_id : {t},
            scores : ScoreVectors(t)] : t \in ScoreTargets}

\* The sensor scores a target against the objects it has reported.
SensorTracks(data) ==
    \A i \in 0..(Len(data.scores) - 1) : i \in DOMAIN objdict

RefWords == { <<"r","e","d">>,
              <<"i","t","'","s"," ","r","e","d","!">> }
\* Object 0, the first stray object, and an id no sensor message carries.
RefIds == {0, ExpectedCount, ExpectedCount + MaxStray}

ScriptObjectRef == [object_id : RefIds, words : RefWords]

\* No script is read, so no reference is published, while the validation
\* actions are acted out (readScript has returned).
ScriptSilent == pc = "val_loop"

-----------------------------------------------------------------------------
(* Pure functions of the controller.                                       *)

\* The last index is the one before it: z is taken from the Kinect's x.
convertCoords_IndexSlip(kinectCoords) ==
    <<kinectCoords[3] - OriginTranslationVector[3],
      kinectCoords[1] - OriginTranslationVector[1],
      kinectCoords[1] - OriginTranslationVector[1]>>

\* InteractionController.convertCoords
convertCoords(kinectCoords) ==
    LET x == kinectCoords[3] - OriginTranslationVector[3]
        y == kinectCoords[1] - OriginTranslationVector[1]
        z == kinectCoords[2] - OriginTranslationVector[2]
    IN  <<x, y, z>>

\* Lego(idnum, loc, upper colour, lower colour, words)
Lego(idnum, loc, color_upper, color_lower, words) ==
    [idnum |-> idnum, loc |-> loc, color_upper |-> color_upper,
     color_lower |-> color_lower, words |-> words]

Letters == {"a","b","c","d","e","f","g","h","i","j","k","l","m",
            "n","o","p","q","r","s","t","u","v","w","x","y","z"}
Digits == {"0","1","2","3","4","5","6","7","8","9"}
\* The characters \w matches.
WordChars == Letters \cup Digits \cup {"_"}
\* The pattern without the apostrophe and the underscore.
TokenChars_Alnum == Letters \cup Digits
\* The character class [\w'] of findNVBForRef's pattern.
TokenChars == WordChars \cup {"'"}

\* re.findall(r"[\w']+", s): the maximal runs of TokenChars, in order.
RECURSIVE FindAll(_, _)
FindAll(s, run) ==
    IF s = <<>> THEN (IF run = <<>> THEN <<>> ELSE <<run>>)
    ELSE IF Head(s) \in TokenChars THEN FindAll(Tail(s), Append(run, Head(s)))
    ELSE (IF run = <<>> THEN <<>> ELSE <<run>>) \o FindAll(Tail(s), <<>>)

words_list(words_spoken) == FindAll(words_spoken, <<>>)

\* NVBModel.calculateSaliencyScores: one score per object known at the time.
calculateSaliencyScores(objs) ==
    [i \in DOMAIN objs |-> objs[i].color_lower[1]]

\* NVBModel.calculateNVBForRef: a modality is ambiguous when another known
\* object scores at least as high as the target, or the target has no score;
\* a salient target named by two or more words needs no gesture.
AmbiguousFor(store, target, objs) ==
    IF target \in DOMAIN store /\ (target + 1) \in DOMAIN store[target]
    THEN \E j \in DOMAIN store[target] :
            /\ j # target + 1
            /\ (j - 1) \in DOMAIN objs
            /\ store[target][j] >= store[target][target + 1]
    ELSE TRUE

calculateNVBForRef(saliency, target, objs, words, gaze, point) ==
    LET verbalClear == /\ target \in DOMAIN saliency
                       /\ saliency[target] >= 100
                       /\ Len(words) >= 2
        gazeAmb == AmbiguousFor(gaze, target, objs)
        pointAmb == AmbiguousFor(point, target, objs)
    IN  IF verbalClear THEN "none"
        ELSE IF ~gazeAmb /\ pointAmb THEN "look"
        ELSE IF gazeAmb /\ ~pointAmb THEN "point"
        ELSE "lookandpoint"

\* What a step did: a call of a collaborator, or an error it raised.
Ev(kind, act, arg) == [kind |-> kind, act |-> act, arg |-> arg]

\* A reference that follows another at once gets no gesture of its own.
findNVBForRef_NotTwice(target_id, words_spoken) ==
    IF \E i \in DOMAIN out : out[i].kind = "calculateNVBForRef"
    THEN "none"
    ELSE calculateNVBForRef(saliency_scores, target_id, objdict,
                            words_list(words_spoken), gazescores, pointscores)

\* InteractionController.findNVBForRef, once saliency_scores exists.
findNVBForRef(target_id, words_spoken) ==
    calculateNVBForRef(saliency_scores, target_id, objdict,
                       words_list(words_spoken), gazescores, pointscores)

-----------------------------------------------------------------------------
(* The initial state: the process has started, nothing is constructed.     *)

NoTiming == [overhead |-> 0, waittime |-> 0, slept |-> 0]
NoProbe == <<>>

\* The state of a started process whose nonverbalBehavior argument is b.
Started(b) ==
    /\ pc = "start"
    /\ exc = "none"
    /\ objdict = EmptyDict
    /\ gazescores = EmptyDict
    /\ pointscores = EmptyDict
    /\ saliency_scores = EmptyDict
    /\ rosbags = "unset"
    /\ children = 0
    /\ action_list = <<>>
    /\ idx = 0
    /\ timing = NoTiming
    /\ correctactions = [state |-> "absent", lines |-> <<>>]
    /\ shutdown_log = <<>>
    /\ nvb = b
    /\ probe = NoProbe
    /\ out = <<>>

\* nonverbalBehavior defaults to True.
Init == Started(TRUE)

stores == <<objdict, gazescores, pointscores, saliency_scores>>
process == <<rosbags, children, shutdown_log>>
validation == <<action_list, idx, timing, correctactions>>
config == <<nvb, probe>>

\* The main thread fails with exception e; the interpreter starts to exit.
Raise(e) == pc' = "exiting" /\ exc' = e

-----------------------------------------------------------------------------
(* The subscriber callbacks.  rospy logs an exception a callback raises    *)
(* and goes on with the next message.                                      *)

\* Every update builds the object anew, as a first sighting does.
UpdateObject_Recreate(objs, objectMsg) ==
    Put(objs, objectMsg.object_id,
        Lego(objectMsg.object_id, convertCoords(objectMsg.pos),
             objectMsg.color.upper, objectMsg.color.lower, <<>>))

\* InteractionController.objectsInfoCallback, on self.objdict.
UpdateObject(objs, objectMsg) ==
    LET obj_id == objectMsg.object_id
        obj_pos == convertCoords(objectMsg.pos)
    IN  IF obj_id \in DOMAIN objs
        THEN IF obj_pos # objs[obj_id].loc
             THEN [objs EXCEPT ![obj_id].loc = obj_pos]
             ELSE objs
        ELSE Put(objs, obj_id,
                 Lego(obj_id, obj_pos, objectMsg.color.upper,
                      objectMsg.color.lower, <<>>))

objectsInfoCallback(objectMsg) ==
    /\ Subscribed
    /\ SensorOrder(objectMsg)
    /\ IF HasObjdict
       THEN /\ objdict' = UpdateObject(objdict, objectMsg)
            /\ out' = <<>>
       ELSE /\ objdict' = objdict
            /\ out' = <<Ev("raise", "AttributeError", "objdict")>>
    /\ UNCHANGED <<pc, exc, gazescores, pointscores, saliency_scores, process,
                   validation, config>>

\* InteractionController.gazepointInfoCallback
gazepointInfoCallback(data) ==
    /\ Subscribed
    /\ SensorTracks(data)
    /\ IF data.type \in {"gaze", "point"} /\ ~HasScores
       THEN /\ UNCHANGED <<gazescores, pointscores>>
            /\ out' = <<Ev("raise", "AttributeError", data.type)>>
       ELSE IF data.type = "gaze"
       THEN /\ gazescores' = Put(gazescores, data.target_id, data.scores)
            /\ pointscores' = pointscores
            /\ out' = <<>>
       ELSE IF data.type = "point"
       THEN /\ pointscores' = Put(pointscores, data.target_id, data.scores)
            /\ gazescores' = gazescores
            /\ out' = <<>>
       ELSE /\ UNCHANGED <<gazescores, pointscores>>
            /\ out' = <<Ev("logerr", "Unrecognized type", data.type)>>
    /\ UNCHANGED <<pc, exc, objdict, saliency_scores, process, validation, config>>

\* What findNVBForRef does when called: it raises when an attribute it
\* reads does not exist yet, before the model is called.
CallFindNVB(target_id, words_spoken) ==
    <<Ev("findNVBForRef", "call", <<target_id, words_spoken>>)>> \o
    (IF HasSaliency /\ HasScores
     THEN <<Ev("calculateNVBForRef", findNVBForRef(target_id, words_spoken),
               <<target_id, words_list(words_spoken)>>)>>
     ELSE <<Ev("raise", "AttributeError", "saliency_scores")>>)

Raised(events) == \E i \in DOMAIN events : events[i].kind = "raise"

\* The callback goes on after the KeyError, with a gesture at the origin.
UnknownTarget_GoesOn(target_id) ==
    <<Ev("logerr", "KeyError", target_id), Ev("doGesture", "none", <<0, 0, 0>>)>>

\* Lines 277-280: the KeyError is logged and the callback returns.
UnknownTarget(target_id) == <<Ev("logerr", "KeyError", target_id)>>

\* The callback asks the selector whatever self.nvb is.
RefEvents_IgnoresFlag(objectRefMsg) ==
    LET target_id == objectRefMsg.object_id
        words_spoken == objectRefMsg.words
    IN  IF ~HasObjdict THEN <<Ev("raise", "AttributeError", "objdict")>>
        ELSE IF target_id \notin DOMAIN objdict THEN UnknownTarget(target_id)
        ELSE IF ~HasRobot THEN <<Ev("raise", "AttributeError", "nvb")>>
        ELSE LET found == CallFindNVB(target_id, words_spoken)
             IN  IF Raised(found) THEN found
                 ELSE found \o <<Ev("doGesture", found[Len(found)].act,
                                    objdict[target_id].loc)>>

\* InteractionController.objectRefCallback: what it calls, in order.
RefEvents(objectRefMsg) ==
    LET target_id == objectRefMsg.object_id
        words_spoken == objectRefMsg.words
    IN  IF ~HasObjdict THEN <<Ev("raise", "AttributeError", "objdict")>>
        ELSE IF target_id \notin DOMAIN objdict THEN UnknownTarget(target_id)
        ELSE IF ~HasRobot THEN <<Ev("raise", "AttributeError", "nvb")>>
        ELSE IF nvb
        THEN LET found == CallFindNVB(target_id, words_spoken)
             IN  IF Raised(found) THEN found
                 ELSE found \o <<Ev("doGesture", found[Len(found)].act,
                                    objdict[target_id].loc)>>
        ELSE <<Ev("doGesture", "none", objdict[target_id].loc)>>

objectRefCallback(objectRefMsg) ==
    /\ Subscribed
    /\ ~ScriptSilent
    /\ out' = RefEvents(objectRefMsg)
    /\ UNCHANGED <<pc, exc, stores, process, validation, config>>

-----------------------------------------------------------------------------
(* The recording thread and the recording process.                         *)

\* InteractionController.recordRosbags, run by rosbagthread.
recordRosbags ==
    /\ Rank(pc) >= Rank("init_subscribed")
    /\ rosbags = "unset"
    /\ rosbags' = "running"
    /\ out' = <<>>
    /\ UNCHANGED <<pc, exc, stores, validation, children, shutdown_log, config>>

\* The signalled recording process exits; its killed children are reaped.
RosbagExits ==
    /\ rosbags = "terminated"
    /\ children > 0
    /\ pc # "terminated"
    /\ children' = 0
    /\ out' = <<>>
    /\ UNCHANGED <<pc, exc, stores, validation, rosbags, shutdown_log, config>>

-----------------------------------------------------------------------------
(* The constructor.                                                        *)

\* Lines 59-72: the atexit hook, the node, the subscribers, the thread.
Subscribe ==
    /\ pc = "start"
    /\ pc' = "init_subscribed"
    /\ out' = <<>>
    /\ UNCHANGED <<exc, stores, process, validation, config>>

\* Lines 75-78
CreateObjdict ==
    /\ pc = "init_subscribed"
    /\ pc' = "init_objdict"
    /\ objdict' = EmptyDict
    /\ out' = <<>>
    /\ UNCHANGED <<exc, gazescores, pointscores, saliency_scores, process,
                   validation, config>>

\* Lines 80-95: nvb, interrupt, the robot, the model, the script reader.
CreateRobot ==
    /\ pc = "init_objdict"
    /\ pc' = "init_robot"
    /\ out' = <<>>
    /\ UNCHANGED <<exc, stores, process, validation, config>>

\* Lines 102-103
CreateScores ==
    /\ pc = "init_robot"
    /\ pc' = "init_wait"
    /\ gazescores' = EmptyDict
    /\ pointscores' = EmptyDict
    /\ out' = <<>>
    /\ UNCHANGED <<exc, objdict, saliency_scores, process, validation, config>>

\* The loop ends with the first message of either type.
ScoresArrived_Either == DOMAIN gazescores # {} \/ DOMAIN pointscores # {}

\* The condition that ends waitForGazePointScores' loop.
ScoresArrived == DOMAIN gazescores # {} /\ DOMAIN pointscores # {}

\* InteractionController.waitForGazePointScores
waitForGazePointScores ==
    /\ pc = "init_wait"
    /\ ScoresArrived
    /\ pc' = "init_saliency"
    /\ out' = <<>>
    /\ UNCHANGED <<exc, stores, process, validation, config>>

\* Without a frame the failure is logged and the scores are computed from
\* the image file an earlier session left.
precomputeSaliencyScores_GoesOn ==
    /\ pc = "init_saliency"
    /\ \E s \in BOOLEAN :
         /\ saliency_scores' = calculateSaliencyScores(objdict)
         /\ pc' = "constructed"
         /\ exc' = exc
         /\ out' = IF s THEN <<Ev("imwrite", "userview.jpg", 0)>>
                   ELSE <<Ev("logerr", "IOError", "camera")>>
    /\ UNCHANGED <<objdict, gazescores, pointscores, process, validation, config>>

\* InteractionController.precomputeSaliencyScores; s is what cam.read gives.
precomputeSaliencyScores ==
    /\ pc = "init_saliency"
    /\ \E s \in BOOLEAN :
         IF s
         THEN /\ saliency_scores' = calculateSaliencyScores(objdict)
              /\ pc' = "constructed"
              /\ exc' = exc
              /\ out' = <<Ev("imwrite", "userview.jpg", 0)>>
         ELSE /\ saliency_scores' = saliency_scores
              /\ Raise("IOError: camera")
              /\ out' = <<Ev("raise", "IOError", "camera")>>
    /\ UNCHANGED <<objdict, gazescores, pointscores, process, validation, config>>

-----------------------------------------------------------------------------
(* main(): startup.                                                        *)

\* Line 371, up to the sleep.
startupStand ==
    /\ pc = "constructed"
    /\ pc' = "startup_sleep"
    /\ out' = <<Ev("stand", "robot", 0)>>
    /\ UNCHANGED <<exc, stores, process, validation, config>>

\* The assignments of lines 377-381 only.
AssignWords_ButLast(objs) ==
    [i \in DOMAIN objs |->
       IF i \in 0..(ExpectedCount - 2)
       THEN [objs[i] EXCEPT !.words = DescriptorWords[i]]
       ELSE objs[i]]

\* Lines 377-382: the assignments up to the first id that is no key.
AssignWords(objs) ==
    [i \in DOMAIN objs |->
       IF i \in 0..(ExpectedCount - 1)
          /\ \A j \in 0..i : j \in DOMAIN objs
       THEN [objs[i] EXCEPT !.words = DescriptorWords[i]]
       ELSE objs[i]]

\* Lines 373-382
startupAssign ==
    /\ pc = "startup_sleep"
    /\ IF Cardinality(DOMAIN objdict) # ExpectedCount
       THEN /\ Raise("AssertionError")
            /\ objdict' = objdict
            /\ out' = <<Ev("startIdle", "robot", 0),
                        Ev("raise", "AssertionError", "len(objdict)")>>
       ELSE IF \E i \in 0..(ExpectedCount - 1) : i \notin DOMAIN objdict
       THEN /\ Raise("KeyError")
            /\ objdict' = AssignWords(objdict)
            /\ out' = <<Ev("startIdle", "robot", 0),
                        Ev("raise", "KeyError", "objdict")>>
       ELSE /\ pc' = "validation"
            /\ exc' = exc
            /\ objdict' = AssignWords(objdict)
            /\ out' = <<Ev("startIdle", "robot", 0)>>
    /\ UNCHANGED <<gazescores, pointscores, saliency_scores, process,
                   validation, config>>

-----------------------------------------------------------------------------
(* main(): systemValidation.                                               *)

\* Lines 307-314, over the objects with the given keys: the lines written,
\* the entries appended and the calls made, up to a failing assertion.
RECURSIVE ValidationPass(_)
ValidationPass(keys) ==
    IF keys = <<>>
    THEN [lines |-> <<>>, list |-> <<>>, events |-> <<>>, ok |-> TRUE]
    ELSE LET obj == objdict[Head(keys)]
         IN  IF Len(obj.words) = 0
             THEN [lines |-> <<>>, list |-> <<>>, ok |-> FALSE,
                   events |-> <<Ev("raise", "AssertionError", obj.idnum)>>]
             ELSE LET words == obj.words[1]
                      found == CallFindNVB(obj.idnum, words)
                      correct_act == found[Len(found)].act
                      rest == ValidationPass(Tail(keys))
                  IN  [lines |-> <<<<obj.idnum, correct_act>>>> \o rest.lines,
                       list |-> [a \in 1..Len(ValidationActions) |->
                                   <<ValidationActions[a], obj.loc, words>>]
                                \o rest.list,
                       events |-> found \o rest.events,
                       ok |-> rest.ok]

\* Lines 305-315
buildActionList ==
    /\ pc = "validation"
    /\ LET pass == ValidationPass(SortedKeys(DOMAIN objdict))
       IN  /\ out' = pass.events
           /\ IF pass.ok
              THEN /\ pc' = "val_shuffle"
                   /\ exc' = exc
                   /\ action_list' = pass.list
                   /\ correctactions' = [state |-> "closed", lines |-> pass.lines]
              ELSE /\ Raise("AssertionError")
                   /\ action_list' = <<>>
                   /\ correctactions' = [state |-> "open", lines |-> pass.lines]
    /\ UNCHANGED <<stores, process, idx, timing, config>>

Rotation(n, k) == [i \in 1..n |-> ((i - 1 + k) % n) + 1]
Reversal(n) == [i \in 1..n |-> n + 1 - i]
\* The orders random.shuffle chooses among.
Shuffles(n) == {Rotation(n, k) : k \in 0..MaxRot} \cup {Reversal(n)}

Permute(list, p) == [i \in 1..Len(list) |-> list[p[i]]]

\* Line 318
shuffle ==
    /\ pc = "val_shuffle"
    /\ pc' = "val_script"
    /\ \E p \in Shuffles(Len(action_list)) : action_list' = Permute(action_list, p)
    /\ out' = <<>>
    /\ UNCHANGED <<exc, stores, process, idx, timing, correctactions, config>>

\* Line 321
readValidationScript ==
    /\ pc = "val_script"
    /\ pc' = "val_loop"
    /\ idx' = 0
    /\ out' = <<Ev("readScript", "validation", 0)>>
    /\ UNCHANGED <<exc, stores, process, action_list, timing,
                   correctactions, config>>

\* The budget counted from the end of the dispatch of a one-second call.
WaitTime_Short(overhead) == ActionBudget - overhead - 1

\* waittime = totaltime - time(), the dispatch having taken overhead seconds.
WaitTime(overhead) == ActionBudget - overhead

\* One round of the loop of lines 324-327 with actOutReference: the dispatch
\* takes overhead seconds, and sleep returns late seconds after its time.
\* sleep raises IOError for a negative time, which ends systemValidation
\* and drops its locals.
actOutReference(overhead, late) ==
    /\ pc = "val_loop"
    /\ idx < Len(action_list)
    /\ LET action == action_list[idx + 1]
           dispatch == <<Ev("speak", "Touch the block", action[3]),
                         Ev("doGesture", action[1], action[2])>>
           waited == WaitTime(overhead)
       IN  IF waited < 0
           THEN /\ Raise("IOError: sleep")
                /\ action_list' = <<>>
                /\ idx' = 0
                /\ timing' = [overhead |-> overhead, waittime |-> waited,
                              slept |-> 0]
                /\ out' = dispatch \o <<Ev("raise", "IOError", "sleep")>>
           ELSE /\ pc' = pc
                /\ exc' = exc
                /\ action_list' = action_list
                /\ idx' = idx + 1
                /\ timing' = [overhead |-> overhead, waittime |-> waited,
                              slept |-> waited + late]
                /\ out' = dispatch \o <<Ev("sleep", "wait", waited)>>
    /\ UNCHANGED <<stores, process, correctactions, config>>

\* The loop is left after its first round.
ValidationDone_Early == idx >= 1

\* The for loop of line 324 has no entry left.
ValidationDone == idx = Len(action_list)

\* The loop ends; lines 413-414 start the scripted interaction.
startMainPhase ==
    /\ pc = "val_loop"
    /\ ValidationDone
    /\ pc' = "main_phase"
    /\ action_list' = <<>>
    /\ idx' = 0
    /\ timing' = NoTiming
    /\ out' = <<Ev("startIdle", "robot", 0), Ev("readScript", "hri", 0)>>
    /\ UNCHANGED <<exc, stores, process, correctactions, config>>

\* readScript returns: the script is over.
finishScript ==
    /\ pc = "main_phase"
    /\ pc' = "shutdown"
    /\ out' = <<>>
    /\ UNCHANGED <<exc, stores, process, validation, config>>

-----------------------------------------------------------------------------
(* shutdown, called by main and by the atexit hook.                        *)

\* The child processes ps can list: any number while the recording runs,
\* afterwards the killed ones the recording process has not yet reaped.
Listed == IF rosbags = "running" THEN 0..MaxChildren
          ELSE IF rosbags = "terminated" THEN {children}
          ELSE {0}

\* How a call of shutdown ends when ps lists n child processes; ps exits
\* with 1 when it lists none.
ShutdownOutcome(n) ==
    IF rosbags = "unset" THEN "AttributeError"
    ELSE IF n = 0 THEN "AssertionError"
    ELSE "ok"

\* The recording process is signalled before its children are.
ShutdownEvents_ParentFirst(n) ==
    <<Ev("robotShutdown", "robot", 0)>> \o
    (IF ShutdownOutcome(n) = "ok"
     THEN <<Ev("terminate", "SIGTERM", 0)>>
          \o [c \in 1..n |-> Ev("kill", "SIGKILL", c)]
     ELSE <<Ev("raise", ShutdownOutcome(n), "shutdown")>>)

\* What shutdown calls, in order.
ShutdownEvents(n) ==
    <<Ev("robotShutdown", "robot", 0)>> \o
    (IF ShutdownOutcome(n) = "ok"
     THEN [c \in 1..n |-> Ev("kill", "SIGKILL", c)]
          \o <<Ev("terminate", "SIGTERM", 0)>>
     ELSE <<Ev("raise", ShutdownOutcome(n), "shutdown")>>)

\* InteractionController.shutdown
shutdown(n) ==
    /\ shutdown_log' = Append(shutdown_log, ShutdownOutcome(n))
    /\ rosbags' = IF ShutdownOutcome(n) = "ok" THEN "terminated" ELSE rosbags
    /\ children' = n
    /\ out' = ShutdownEvents(n)

\* Line 416, then sys.exit(0).
mainShutdown ==
    /\ pc = "shutdown"
    /\ pc' = "exiting"
    /\ \E n \in Listed :
         /\ shutdown(n)
         /\ exc' = IF ShutdownOutcome(n) = "ok" THEN exc ELSE ShutdownOutcome(n)
    /\ UNCHANGED <<stores, validation, config>>

\* The interpreter exits: it joins rosbagthread, then runs the atexit hook.
atexitShutdown ==
    /\ pc = "exiting"
    /\ rosbags # "unset"
    /\ pc' = "terminated"
    /\ \E n \in Listed : shutdown(n)
    /\ UNCHANGED <<exc, stores, validation, config>>

-----------------------------------------------------------------------------
(* The session: the main thread, the callbacks, the recording.             *)

MainThread ==
    \/ Subscribe
    \/ CreateObjdict
    \/ CreateRobot
    \/ CreateScores
    \/ waitForGazePointScores
    \/ precomputeSaliencyScores
    \/ startupStand
    \/ startupAssign
    \/ buildActionList
    \/ shuffle
    \/ readValidationScript
    \/ \E overhead \in {0, MaxOverhead} : actOutReference(overhead, 0)
    \/ startMainPhase
    \/ finishScript
    \/ mainShutdown
    \/ atexitShutdown

Callbacks ==
    \/ \E objectMsg \in ObjectsInfo : objectsInfoCallback(objectMsg)
    \/ \E data \in GazePointInfo : gazepointInfoCallback(data)
    \/ \E objectRefMsg \in ScriptObjectRef : objectRefCallback(objectRefMsg)

Next == MainThread \/ Callbacks \/ recordRosbags \/ RosbagExits

Spec == Init /\ [][Next]_vars

\* The session of a controller constructed with nonverbalBehavior = False.
InitNvbOff == Started(FALSE)
SpecNvbOff == InitNvbOff /\ [][Next]_vars

\* The session of a controller constructed with either value of it.
InitNvbAny == \E b \in BOOLEAN : Started(b)
SpecNvbAny == InitNvbAny /\ [][Next]_vars

-----------------------------------------------------------------------------
(* The validation loop alone, with every overhead and lateness, from the   *)
(* state in which the session enters it: the six objects seen and named,   *)
(* scores for target 0, the action list built and shuffled.                *)

RECURSIVE SeenUpTo(_)
SeenUpTo(n) ==
    IF n < 0 THEN EmptyDict
    ELSE UpdateObject(SeenUpTo(n - 1),
                      [object_id |-> n, pos |-> <<IF n = 0 THEN 0 ELSE n, 1, 10>>,
                       color |-> ColorA])

InitTiming ==
    /\ pc = "val_loop"
    /\ exc = "none"
    /\ objdict = AssignWords(SeenUpTo(ExpectedCount - 1))
    /\ gazescores \in {Put(EmptyDict, 0, v) : v \in ScoreVectors(0)}
    /\ pointscores \in {Put(EmptyDict, 0, v) : v \in ScoreVectors(0)}
    /\ saliency_scores = calculateSaliencyScores(SeenUpTo(ExpectedCount - 1))
    /\ rosbags = "running"
    /\ children = 0
    /\ LET pass == ValidationPass(SortedKeys(DOMAIN objdict))
       IN  /\ action_list \in {Permute(pass.list, p) : p \in Shuffles(Len(pass.list))}
           /\ correctactions = [state |-> "closed", lines |-> pass.lines]
    /\ idx = 0
    /\ timing = NoTiming
    /\ shutdown_log = <<>>
    /\ nvb = TRUE
    /\ probe = NoProbe
    /\ out = <<Ev("readScript", "validation", 0)>>

NextTiming ==
    \/ \E overhead \in 0..MaxOverhead, late \in 0..MaxJitter :
         actOutReference(overhead, late)
    \/ startMainPhase

SpecTiming == InitTiming /\ [][NextTiming]_vars

-----------------------------------------------------------------------------
(* The scripted interaction alone, with an observer that remembers one     *)
(* call of the selector and what it read, to compare later calls with.     *)

InitSelector ==
    /\ pc = "main_phase"
    /\ exc = "none"
    /\ objdict = AssignWords(SeenUpTo(ExpectedCount - 1))
    /\ gazescores \in {Put(EmptyDict, 0, v) : v \in ScoreVectors(0)}
    /\ pointscores \in {Put(EmptyDict, 0, v) : v \in ScoreVectors(0)}
    /\ saliency_scores = calculateSaliencyScores(SeenUpTo(ExpectedCount - 1))
    /\ rosbags = "running"
    /\ children = 0
    /\ action_list = <<>>
    /\ idx = 0
    /\ timing = NoTiming
    /\ out = <<Ev("startIdle", "robot", 0), Ev("readScript", "hri", 0)>>
    /\ correctactions =
         [state |-> "closed",
          lines |-> ValidationPass(SortedKeys(DOMAIN objdict)).lines]
    /\ shutdown_log = <<>>
    /\ nvb = TRUE
    /\ probe = NoProbe

\* The selector calls of the last step: the call, what it read, its result.
SelectorCalls ==
    {[target |-> out[i].arg[1], words |-> out[i].arg[2],
      objdict |-> objdict, gazescores |-> gazescores,
      pointscores |-> pointscores, saliency_scores |-> saliency_scores,
      action |-> out[i + 1].act] :
       i \in {k \in DOMAIN out : /\ out[k].kind = "findNVBForRef"
                                 /\ k + 1 \in DOMAIN out
                                 /\ out[k + 1].kind = "calculateNVBForRef"}}

\* The observer takes a call of the last step into its memory.
Remember ==
    /\ probe = NoProbe
    /\ \E call \in SelectorCalls : probe' = <<call>>
    /\ out' = <<>>
    /\ UNCHANGED <<pc, exc, stores, process, validation, nvb>>

NextSelector == Callbacks \/ Remember

SpecSelector == InitSelector /\ [][NextSelector]_vars

-----------------------------------------------------------------------------
(* The score stores alone: the constructor from line 102 to the end of its *)
(* wait, with score messages of every type for several targets.           *)

GazePointInfoAll ==
    [type : {"gaze", "point", "face"}, target_id : 0..MaxTarget,
     scores : ScoreVectors(0)]

InitScores ==
    /\ pc = "init_robot"
    /\ exc = "none"
    /\ objdict = SeenUpTo(ExpectedCount - 1)
    /\ gazescores = EmptyDict
    /\ pointscores = EmptyDict
    /\ saliency_scores = EmptyDict
    /\ rosbags = "running"
    /\ children = 0
    /\ action_list = <<>>
    /\ idx = 0
    /\ timing = NoTiming
    /\ correctactions = [state |-> "absent", lines |-> <<>>]
    /\ shutdown_log = <<>>
    /\ nvb = TRUE
    /\ probe = NoProbe
    /\ out = <<>>

NextScores ==
    \/ CreateScores
    \/ \E data \in GazePointInfoAll : gazepointInfoCallback(data)
    \/ waitForGazePointScores

SpecScores == InitScores /\ [][NextScores]_vars

-----------------------------------------------------------------------------
(* convertCoords and the tokenizing of findNVBForRef, each applied on its  *)
(* own to every argument of a bounded set.  probe holds the arguments, out *)
(* the calls made: the result in act, the argument in arg.                 *)

\* The state of a started process, with the arguments to apply a function to.
Given(arguments) ==
    /\ pc = "start"
    /\ exc = "none"
    /\ objdict = EmptyDict
    /\ gazescores = EmptyDict
    /\ pointscores = EmptyDict
    /\ saliency_scores = EmptyDict
    /\ rosbags = "unset"
    /\ children = 0
    /\ action_list = <<>>
    /\ idx = 0
    /\ timing = NoTiming
    /\ correctactions = [state |-> "absent", lines |-> <<>>]
    /\ shutdown_log = <<>>
    /\ nvb = TRUE
    /\ probe \in arguments
    /\ out = <<>>

KinectPoints == {<<x, y, z>> : x \in 0..MaxPoint, y \in 0..MaxPoint, z \in 0..MaxPoint}

InitCoords == Given({<<p, q>> : p \in KinectPoints, q \in KinectPoints})

\* self.convertCoords(objectMsg.pos), for each of the points given.
applyConvertCoords ==
    /\ out = <<>>
    /\ out' = [k \in DOMAIN probe |->
                 Ev("convertCoords", convertCoords(probe[k]), probe[k])]
    /\ UNCHANGED <<pc, exc, stores, process, validation, config>>

SpecCoords == InitCoords /\ [][applyConvertCoords]_vars

\* Characters of spoken words: a letter, a digit, the underscore, the
\* apostrophe, the space and a punctuation mark.
SpokenChars == {"a", "1", "_", "'", " ", "!"}

Spoken == UNION {[1..n -> SpokenChars] : n \in 0..MaxLen}

InitWords == Given({<<words_spoken>> : words_spoken \in Spoken})

\* Line 361, for the words given.
applyWordsList ==
    /\ out = <<>>
    /\ out' = <<Ev("words_list", words_list(probe[1]), probe[1])>>
    /\ UNCHANGED <<pc, exc, stores, process, validation, config>>

SpecWords == InitWords /\ [][applyWordsList]_vars

-----------------------------------------------------------------------------
(* The offline analysis, src/src/analysis/parseRosbags.py: the function    *)
(* system_validation, applied to every bag of a bounded set.  A bag is the *)
(* sequence of its messages on the three topics read, in time order; dt is *)
(* the time in seconds since the message before.                           *)

\* t_window = 4.0
t_window == 4
\* action_list = ['none','look','point','lookandpoint']
AnalysisActions == {"none", "look", "point", "lookandpoint"}
\* Python's None as the value of the trackers start_time and target_obj.
None == -1

BagMessage(dt, topic, data, object_id, action, target, effector) ==
    [dt |-> dt, topic |-> topic, data |-> data, object_id |-> object_id,
     action |-> action, target |-> target, effector |-> effector]

\* A message comes one second after the one before, or one second short of
\* the window after it.
LogGaps == {1, t_window - 1}

RobotBehavior ==
    {BagMessage(dt, "robot_behavior", "", b[1], b[2], <<>>, <<>>) :
       dt \in LogGaps, b \in {<<0, "none">>, <<1, "look">>}}

\* Touches of nothing, of block 0 or 1 with an arm or the head, of two
\* blocks at once, and a message whose two lists differ in length.
HumanBehavior ==
    {BagMessage(dt, "human_behavior", "", None, "", h[1], h[2]) :
       dt \in LogGaps,
       h \in {<< <<>>, <<>> >>,
              << <<0>>, <<"leftarm">> >>,
              << <<0>>, <<"head">> >>,
              << <<1>>, <<"rightarm">> >>,
              << <<1, 0>>, <<"head", "rightarm">> >>,
              << <<0>>, <<>> >>}}

ScriptStatus ==
    {BagMessage(dt, "script_status", d, None, "", <<>>, <<>>) :
       dt \in LogGaps, d \in {"HRIConstruction", "SystemValidation"}}

LogMessages == RobotBehavior \cup HumanBehavior \cup ScriptStatus

LogStreams == UNION {[1..n -> LogMessages] : n \in 0..MaxLog}

\* Lines 44-52
Trackers ==
    [start_time |-> None, target_obj |-> None, nvb_action |-> "None",
     total_actions |-> [a \in AnalysisActions |-> 0],
     accuracy |-> [a \in AnalysisActions |-> 0],
     responsetime |-> [a \in AnalysisActions |-> 0],
     error |-> "none"]

\* A correct touch is counted again by every later touch of the window.
CorrectTouch_KeepsTracking(st, t) ==
    [st EXCEPT !.accuracy[st.nvb_action] = @ + 1,
               !.responsetime[st.nvb_action] = @ + (t - st.start_time)]

\* Lines 85-91
CorrectTouch(st, t) ==
    [st EXCEPT !.accuracy[st.nvb_action] = @ + 1,
               !.responsetime[st.nvb_action] = @ + (t - st.start_time),
               !.start_time = None,
               !.target_obj = None,
               !.nvb_action = "None"]

\* Lines 61-92: the body of the loop below the test for the end of the
\* validation, for message msg read at time t.
ReadMessage(st, msg, t) ==
    IF msg.topic = "robot_behavior"
    THEN [st EXCEPT !.start_time = t,
                    !.target_obj = msg.object_id,
                    !.nvb_action = msg.action,
                    !.total_actions[msg.action] = @ + 1]
    ELSE IF /\ msg.topic = "human_behavior"
            /\ st.target_obj # None
            /\ t - st.start_time < t_window
    THEN IF Len(msg.target) = 0 \/ Len(msg.target) # Len(msg.effector)
         THEN [st EXCEPT !.error = "AssertionError"]
         ELSE IF \E i \in DOMAIN msg.target :
                   /\ msg.effector[i] \in {"leftarm", "rightarm"}
                   /\ msg.target[i] = st.target_obj
         THEN CorrectTouch(st, t)
         ELSE st
    ELSE st

\* Lines 56-92: the loop over the messages left, the last one read at t.
RECURSIVE ReadMessages(_, _, _)
ReadMessages(msgs, t, st) ==
    IF msgs = <<>> THEN st
    ELSE LET msg == Head(msgs)
             now == t + msg.dt
         IN  IF msg.topic = "script_status" /\ msg.data = "HRIConstruction"
             THEN st
             ELSE LET read == ReadMessage(st, msg, now)
                  IN  IF read.error # "none" THEN read
                      ELSE ReadMessages(Tail(msgs), now, read)

\* system_validation(bag): the counters when it ends, and how it ends; the
\* averages of lines 105-109 divide by the total of every action.
system_validation(bag) ==
    LET st == ReadMessages(bag, 0, Trackers)
    IN  IF st.error # "none" THEN st
        ELSE IF \E a \in AnalysisActions : st.total_actions[a] = 0
        THEN [st EXCEPT !.error = "ZeroDivisionError"]
        ELSE st

InitAnalysis == Given({<<bag>> : bag \in LogStreams})

\* Line 162
applySystemValidation ==
    /\ out = <<>>
    /\ out' = <<Ev("system_validation", system_validation(probe[1]), probe[1])>>
    /\ UNCHANGED <<pc, exc, stores, process, validation, config>>

SpecAnalysis == InitAnalysis /\ [][applySystemValidation]_vars

-----------------------------------------------------------------------------
(* Properties.                                                             *)

\* The last step called the collaborator or function of this kind.
Did(kind) == \E i \in DOMAIN out : out[i].kind = kind

StoresNonEmpty == DOMAIN gazescores # {} /\ DOMAIN pointscores # {}

\* C1: whenever the selector findNVBForRef is invoked, from systemValidation
\* or from objectRefCallback, the gaze store and the point store each hold
\* at least one entry.
C1_SelectorOnlyWithScores == Did("findNVBForRef") => StoresNonEmpty

\* C2: an object reference whose target is no key of objdict is a no-op: no
\* selector call, no gesture, the registry, the score stores and the
\* saliency map unchanged, and the main thread and the subscriptions go on.
C2_UnknownTargetNoOp ==
    [][\A m \in ScriptObjectRef :
         (objectRefCallback(m) /\ HasObjdict /\ m.object_id \notin DOMAIN objdict)
         => /\ UNCHANGED <<objdict, gazescores, pointscores, saliency_scores>>
            /\ UNCHANGED <<pc, exc, process, validation>>
            /\ ~Did("findNVBForRef")'
            /\ ~Did("calculateNVBForRef")'
            /\ ~Did("doGesture")'
            /\ ~Did("raise")'
            /\ Subscribed']_vars

\* An unknown target was referenced and the session is still running.
C2_Witness ==
    /\ \E i \in DOMAIN out : out[i].kind = "logerr" /\ out[i].act = "KeyError"
    /\ HasRobot
    /\ pc = "main_phase"

Count(list, e) == Cardinality({k \in DOMAIN list : list[k] = e})

\* C4: the action list systemValidation builds has four entries per tracked
\* object, one for each action with the object's location and first word,
\* and shuffling permutes it; the shuffled list is the one acted out.
C4_ActionListComplete ==
    [][/\ (buildActionList /\ pc' = "val_shuffle")
          => /\ Len(action_list') = 4 * Cardinality(DOMAIN objdict)
             /\ \A i \in DOMAIN objdict : \A a \in Actions :
                  Count(action_list', <<a, objdict[i].loc, objdict[i].words[1]>>) = 1
       /\ pc = "val_shuffle"
          => /\ Len(action_list') = Len(action_list)
             /\ \A k \in DOMAIN action_list :
                  Count(action_list', action_list[k]) = Count(action_list, action_list[k])
       /\ (pc \in {"val_script", "val_loop"} /\ pc' \in {"val_script", "val_loop"})
          => action_list' = action_list
       /\ (pc = "val_loop" /\ idx' = idx + 1)
          => \E i \in DOMAIN out' :
               /\ out'[i].kind = "doGesture"
               /\ out'[i].act = action_list[idx'][1]
               /\ out'[i].arg = action_list[idx'][2]]_vars

\* The whole list has been acted out in another order than it was built.
C4_Witness ==
    /\ pc = "val_loop"
    /\ idx = Len(action_list)
    /\ idx = 4 * ExpectedCount
    /\ action_list[1][1] = "lookandpoint"

\* C5: the time actOutReference passes to sleep is never negative, whatever
\* the dispatch took.
C5_WaitNonNegative == timing.waittime >= 0

\* C6: when dispatching took less than the budget of 5 seconds, dispatch and
\* wait together take at least the budget.
C6_BudgetKept ==
    (pc = "val_loop" /\ idx > 0 /\ timing.overhead < ActionBudget)
    => timing.overhead + timing.slept >= ActionBudget

\* A slow dispatch within the budget was padded to exactly the budget.
C6_Witness ==
    /\ pc = "val_loop"
    /\ idx > 1
    /\ timing.overhead = ActionBudget - 1
    /\ timing.overhead + timing.slept = ActionBudget

\* C7: a second call of shutdown, after a first that succeeded, raises no
\* error.
C7_SecondShutdownOk ==
    (Len(shutdown_log) >= 2 /\ shutdown_log[1] = "ok") => shutdown_log[2] = "ok"

\* The phase of a position: Idle 0, Initializing 1, ValidationPhase 2,
\* MainPhase 3, ShuttingDown 4, Terminated 5.
PhaseNo(p) ==
    IF p = "start" THEN 0
    ELSE IF Rank(p) <= Rank("startup_sleep") THEN 1
    ELSE IF Rank(p) <= Rank("val_loop") THEN 2
    ELSE IF p = "main_phase" THEN 3
    ELSE IF p \in {"shutdown", "exiting"} THEN 4
    ELSE 5

\* The main phase is entered from the loop with its whole list acted out,
\* and shutdown is first called when the script has been read.
PhaseGuards ==
    /\ (pc' = "main_phase" /\ pc # "main_phase")
       => (pc = "val_loop" /\ idx = Len(action_list) /\ idx >= 4 * ExpectedCount)
    /\ (pc' = "shutdown" /\ pc # "shutdown") => pc = "main_phase"

\* C8 as stated: every step stays in its phase or enters the next one.
C8_NoPhaseSkipped ==
    [][/\ PhaseNo(pc') \in {PhaseNo(pc), PhaseNo(pc) + 1}
       /\ PhaseGuards]_vars

\* C8, amended: a step stays in its phase, enters the next one, or, when
\* the main thread raises while initializing or validating, enters
\* ShuttingDown; no phase is entered again.
C8_PhasesInOrderOrAbort ==
    [][/\ \/ PhaseNo(pc') \in {PhaseNo(pc), PhaseNo(pc) + 1}
          \/ /\ PhaseNo(pc) \in {1, 2}
             /\ PhaseNo(pc') = 4
             /\ exc = "none"
             /\ exc' # "none"
       /\ exc' # exc => (exc = "none" /\ PhaseNo(pc') = 4)
       /\ PhaseGuards]_vars

\* A session went through all six phases and nothing was raised.
C8_Witness == pc = "terminated" /\ exc = "none" /\ Len(shutdown_log) = 2

C11_StartupAssignsOrFails ==
    [][/\ (pc = "startup_sleep" /\ pc' # pc)
          => IF Cardinality(DOMAIN objdict) # ExpectedCount
             THEN /\ exc' = "AssertionError"
                  /\ pc' = "exiting"
                  /\ objdict' = objdict
             ELSE pc' = "validation"
                  => /\ DOMAIN objdict' = 0..(ExpectedCount - 1)
                     /\ \A i \in DOMAIN objdict' :
                          /\ objdict'[i].words # <<>>
                          /\ objdict'[i].words = DescriptorWords[i]
       /\ (PhaseNo(pc') = 2 /\ PhaseNo(pc) # 2)
          => /\ pc = "startup_sleep"
             /\ Cardinality(DOMAIN objdict) = ExpectedCount]_vars

\* Startup met seven objects and failed: none has words, nothing was
\* validated.
C11_Witness ==
    /\ exc = "AssertionError"
    /\ correctactions.state = "absent"
    /\ Cardinality(DOMAIN objdict) = ExpectedCount + 1
    /\ \A i \in DOMAIN objdict : objdict[i].words = <<>>
    /\ pc = "terminated"

\* C12: the saliency computation either saves the frame and lets the
\* constructor finish, or, without a frame, raises and stores no saliency
\* map; after that failure no map is ever stored, nothing is validated and
\* the session only shuts down.
C12_NoFrameAbortsStart ==
    [][/\ (pc = "init_saliency" /\ pc' # pc)
          => \/ /\ pc' = "constructed"
                /\ exc' = "none"
                /\ Did("imwrite")'
             \/ /\ pc' = "exiting"
                /\ exc' = "IOError: camera"
                /\ Did("raise")'
                /\ ~Did("imwrite")'
                /\ saliency_scores' = saliency_scores
       /\ exc = "IOError: camera"
          => /\ exc' = exc
             /\ saliency_scores' = EmptyDict
             /\ pc' \in {"exiting", "terminated"}
             /\ correctactions'.state = "absent"
             /\ ~Did("doGesture")']_vars

\* The camera gave no frame and the session has ended, its objects known.
C12_Witness ==
    /\ exc = "IOError: camera"
    /\ pc = "terminated"
    /\ saliency_scores = EmptyDict
    /\ Cardinality(DOMAIN objdict) >= ExpectedCount

\* C13: a call of shutdown that finds the recording process but fails to
\* list its children still terminates the recording process and raises
\* nothing.
C13_ShutdownCompletes ==
    (Did("robotShutdown") /\ rosbags # "unset")
    => (Did("terminate") /\ ~Did("raise"))

\* C15: a call of shutdown parks the robot first; when it terminates the
\* recording process, that is its last call, and every child ps listed has
\* been killed before it, and nothing else.
C15_ChildrenBeforeParent ==
    /\ Did("robotShutdown") => out[1].kind = "robotShutdown"
    /\ \A k \in DOMAIN out :
         out[k].kind = "terminate"
         => /\ k = Len(out)
            /\ k = children + 2
            /\ out[1].kind = "robotShutdown"
            /\ \A c \in 1..children : out[c + 1] = Ev("kill", "SIGKILL", c)
    /\ \A k \in DOMAIN out :
         out[k].kind = "kill" => out[Len(out)].kind = "terminate"

\* A shutdown killed the most children there can be, then the parent.
C15_Witness ==
    /\ Did("terminate")
    /\ children = MaxChildren
    /\ Did("kill")
    /\ Len(shutdown_log) = 1

\* C19: when systemValidation starts to iterate over the tracked objects,
\* each of them has descriptor words.
C19_IteratedObjectsNamed ==
    pc = "validation" => \A i \in DOMAIN objdict : objdict[i].words # <<>>

\* C20: no call of shutdown finds self.rosbags unset.
C20_HandleExists ==
    \A k \in DOMAIN shutdown_log : shutdown_log[k] # "AttributeError"

C16_LogWrittenOnceAndClosed ==
    [][/\ (pc = "validation" /\ pc' # pc)
          => /\ correctactions'.state = "closed"
             /\ Len(correctactions'.lines) = Cardinality(DOMAIN objdict)
             /\ \A i \in DOMAIN objdict :
                  Count(correctactions'.lines,
                        <<i, findNVBForRef(i, objdict[i].words[1])>>) = 1
       /\ correctactions' # correctactions
          => (pc = "validation" /\ correctactions.state = "absent")
       /\ (pc = "val_loop" /\ Did("doGesture")')
          => correctactions.state = "closed"]_vars

\* The sensor point of a robot point: the origin offset added back, the
\* axes permuted back.
SensorPoint(r) ==
    <<r[2] + OriginTranslationVector[1],
      r[3] + OriginTranslationVector[2],
      r[1] + OriginTranslationVector[3]>>

\* C17: convertCoords gives robot x = sensor z, robot y = sensor x and
\* robot z = sensor y plus the origin offset of 0.4 m; permuting back and
\* adding the offset back recovers the sensor point, and two distinct
\* sensor points give distinct robot points.
C17_ConvertCoordsInvertible ==
    /\ \A k \in DOMAIN out :
         out[k].kind = "convertCoords"
         => /\ out[k].act[1] = out[k].arg[3]
            /\ out[k].act[2] = out[k].arg[1]
            /\ out[k].act[3] = out[k].arg[2] + 4
            /\ SensorPoint(out[k].act) = out[k].arg
    /\ \A j, k \in DOMAIN out :
         (out[j].kind = "convertCoords" /\ out[k].kind = "convertCoords"
          /\ out[j].arg # out[k].arg)
         => out[j].act # out[k].act

\* Two points that differ in the Kinect's y only were converted.
C17_Witness ==
    /\ Len(out) = 2
    /\ out[1].kind = "convertCoords"
    /\ out[1].arg = <<0, 1, 2>>
    /\ out[1].act = <<2, 0, 5>>
    /\ out[2].arg = <<0, 2, 2>>
    /\ out[2].act = <<2, 0, 6>>

\* The maximal runs of characters of C in s, in order.
RunStarts(s, C) ==
    {i \in DOMAIN s : s[i] \in C /\ (i = 1 \/ s[i - 1] \notin C)}
RunEnd(s, C, i) ==
    CHOOSE e \in i..Len(s) : /\ \A j \in i..e : s[j] \in C
                             /\ (e = Len(s) \/ s[e + 1] \notin C)
MaximalRuns(s, C) ==
    LET starts == SortedKeys(RunStarts(s, C))
    IN  [k \in 1..Len(starts) |-> SubSeq(s, starts[k], RunEnd(s, C, starts[k]))]

\* C18 as stated: the word list is the sequence of the maximal runs of
\* letters and digits of the spoken words.
C18_AlphanumericRuns ==
    \A k \in DOMAIN out :
       out[k].kind = "words_list"
       => out[k].act = MaximalRuns(out[k].arg, Letters \cup Digits)

\* C18, amended: the word list is the sequence of the maximal runs of
\* letters, digits, underscores and apostrophes of the spoken words.
C18_WordCharAndApostropheRuns ==
    \A k \in DOMAIN out :
       out[k].kind = "words_list"
       => out[k].act = MaximalRuns(out[k].arg, Letters \cup Digits \cup {"_", "'"})

\* An apostrophe and an underscore were kept as a word, the mark after
\* them was not.
C18_Witness ==
    \E k \in DOMAIN out :
       /\ out[k].kind = "words_list"
       /\ out[k].arg = <<"'", "_", "!">>
       /\ out[k].act = <<<<"'", "_">>>>

RECURSIVE StampOf(_, _)
StampOf(bag, k) == IF k = 0 THEN 0 ELSE StampOf(bag, k - 1) + bag[k].dt

\* The messages of a bag before its first 'HRIConstruction' script status.
Validated(bag) ==
    {k \in DOMAIN bag :
       \A j \in 1..k : ~(bag[j].topic = "script_status"
                         /\ bag[j].data = "HRIConstruction")}

RobotBehaviors(bag, a) ==
    {i \in Validated(bag) : bag[i].topic = "robot_behavior" /\ bag[i].action = a}

\* Robot behaviour i of the bag is followed, before the next one, before
\* the end of the validation and less than t_window seconds later, by a
\* human behaviour in which an arm touches its object.
Touched(bag, i) ==
    \E j \in Validated(bag) :
       /\ j > i
       /\ \A m \in (i + 1)..j : bag[m].topic # "robot_behavior"
       /\ bag[j].topic = "human_behavior"
       /\ StampOf(bag, j) - StampOf(bag, i) < 4
       /\ \E k \in DOMAIN bag[j].target \cap DOMAIN bag[j].effector :
            /\ bag[j].effector[k] \in {"leftarm", "rightarm"}
            /\ bag[j].target[k] = bag[i].object_id

\* C22: for every bag and action, system_validation counts no more correct
\* touches than there are robot behaviours of that action that were touched
\* in time, so no more than robot behaviours of that action; when its loop
\* reads the bag to the end of the validation, it counts exactly those.
C22_OneTouchPerBehaviour ==
    \A n \in DOMAIN out :
       out[n].kind = "system_validation"
       => LET bag == out[n].arg
              res == out[n].act
          IN  \A a \in {"none", "look", "point", "lookandpoint"} :
                LET touched == {i \in RobotBehaviors(bag, a) : Touched(bag, i)}
                IN  /\ res.accuracy[a] <= Cardinality(touched)
                    /\ res.accuracy[a] <= res.total_actions[a]
                    /\ res.total_actions[a] <= Cardinality(RobotBehaviors(bag, a))
                    /\ res.error # "AssertionError"
                       => /\ res.accuracy[a] = Cardinality(touched)
                          /\ res.total_actions[a]
                               = Cardinality(RobotBehaviors(bag, a))

\* Block 0 was touched with an arm one and two seconds after the robot
\* referred to it, and one correct touch was counted.
C22_Witness ==
    /\ Len(out) = 1
    /\ out[1].kind = "system_validation"
    /\ Len(out[1].arg) = 3
    /\ out[1].arg[1].topic = "robot_behavior"
    /\ out[1].arg[1].object_id = 0
    /\ \A k \in 2..3 : /\ out[1].arg[k].topic = "human_behavior"
                       /\ out[1].arg[k].dt = 1
                       /\ out[1].arg[k].target = <<0>>
                       /\ out[1].arg[k].effector = <<"leftarm">>
    /\ out[1].act.accuracy["none"] = 1
    /\ out[1].act.total_actions["none"] = 1

====
